---- MODULE Spec2Model ----
(***************************************************************************)
(* A model of tavus-pipecat.py: bot() selects a transport and enters       *)
(* run_bot(), which opens an aiohttp session, seeds the conversation       *)
(* context, assembles the nine-stage pipeline, registers the two event     *)
(* handlers and runs the pipeline task until it is cancelled.              *)
(*                                                                         *)
(* Scheduling is Python's asyncio: one coroutine runs at a time and the    *)
(* event loop can switch to another one only where the running coroutine   *)
(* awaits.  Every `await` of the source is therefore one scheduling point; *)
(* the call that is awaited takes its effect at the call.  Statements that *)
(* are not separated by an await are separate steps of the model, but no   *)
(* other coroutine is scheduled between them (NoCoroutineRunning).         *)
(***************************************************************************)
EXTENDS Integers, Sequences, FiniteSets, TLC

\* ---------------------------------------------------------------- bounds
\* Events the client causes in one session: deliveries of the client-ready
\* signal and utterances.
MaxEvents == 2

Kinds == {"webrtc", "daily"}
TimeoutValues == {1, 2}
ReadyIds == 1..MaxEvents

\* What the user says, utterance by utterance, and what the language model
\* answers to each (turn k of the conversation).
UtteranceTexts == <<"hello", "thanks", "bye", "again", "more">>
ReplyTexts == <<"hi there", "you are welcome", "goodbye", "sure", "of course">>
OpeningReply == "Hello, how can I help?"

\* ------------------------------------------------------------- program data
\* The kind -> zero-argument builder mapping; a builder is named by the
\* parameters it builds.
transport_params == [k \in {"webrtc"} |-> "TransportParams"]

SystemPrompt ==
  [role |-> "system",
   content |-> "You are a helpful LLM in a WebRTC call. Your goal is to demonstrate your capabilities in a succinct way. Your output will be converted to audio so don't include special characters in your answers. Respond to what the user said in a creative and helpful way."]

GreetingDirective ==
  [role |-> "system",
   content |-> "Start by greeting the user and ask how you can help."]

Frame(t, x) == [type |-> t, text |-> x, audio |-> FALSE, video |-> FALSE]
LLMRunFrame == Frame("run", "")

\* The stages of Pipeline([...]), top to bottom.
Pipeline ==
  <<"transport_in", "rtvi", "stt", "user_agg", "llm", "tts", "tavus",
    "transport_out", "assistant_agg">>
Stages == 1..Len(Pipeline)

VARIABLES
  runner_args,   \* [transport, pipeline_idle_timeout_secs]
  botPc,         \* position of bot()/run_bot()
  builderCalls,  \* the builders of transport_params invoked, in order
  transports,    \* transports constructed
  session,       \* the aiohttp.ClientSession: "none", "open", "closed"
  releases,      \* how many times the session was released
  messages,      \* the list the LLMContext is built on
  taskState,     \* the PipelineTask: "none", "running", "cancelled", "failed"
  queued,        \* frames handed to task.queue_frames
  pipe,          \* pipe[s]: the frames waiting at stage s, oldest first
  handshake,     \* the RTVI handshake
  readyPc,       \* position of each on_client_ready invocation
  discPc,        \* position of the on_client_disconnected invocation
  idle,          \* seconds since a frame last flowed
  spoken,        \* utterances the user has spoken
  firstSignal    \* which of the two signals was delivered first

vars ==
  <<runner_args, botPc, builderCalls, transports, session, releases, messages,
    taskState, queued, pipe, handshake, readyPc, discPc, idle, spoken,
    firstSignal>>

botVars == <<builderCalls, transports, session, releases>>
handlerVars == <<readyPc, discPc, firstSignal>>

EmptyPipe == [s \in Stages |-> <<>>]

Init ==
  /\ runner_args \in [transport : Kinds, pipeline_idle_timeout_secs : TimeoutValues]
  /\ botPc = "bot_start"
  /\ builderCalls = <<>>
  /\ transports = 0
  /\ session = "none"
  /\ releases = 0
  /\ messages = <<>>
  /\ taskState = "none"
  /\ queued = 0
  /\ pipe = EmptyPipe
  /\ handshake = "WaitingForClient"
  /\ readyPc = [i \in ReadyIds |-> "idle"]
  /\ discPc = "idle"
  /\ idle = 0
  /\ spoken = 0
  /\ firstSignal = "none"

\* ------------------------------------------------------------ bot()
\* create_transport(runner_args, transport_params): resolve the builder of
\* the selected kind, invoke it and construct the transport; a kind without
\* a builder is a configuration error.
create_transport(args, params) ==
  IF args.transport \in DOMAIN params
    THEN [ok |-> TRUE, built |-> <<args.transport>>, constructed |-> 1]
    ELSE [ok |-> FALSE, built |-> <<>>, constructed |-> 0]

\* transport = await create_transport(...), but an error is not propagated.
BotCreateTransport_IgnoreError ==
  /\ botPc = "bot_start"
  /\ LET r == create_transport(runner_args, transport_params) IN
       /\ builderCalls' = builderCalls \o r.built
       /\ transports' = transports + r.constructed
       /\ botPc' = "transport_ready"
  /\ UNCHANGED <<runner_args, session, releases, messages, taskState, queued,
                 pipe, handshake, idle, spoken, handlerVars>>

\* transport = await create_transport(runner_args, transport_params)
BotCreateTransport ==
  /\ botPc = "bot_start"
  /\ LET r == create_transport(runner_args, transport_params) IN
       /\ builderCalls' = builderCalls \o r.built
       /\ transports' = transports + r.constructed
       /\ botPc' = IF r.ok THEN "transport_ready" ELSE "config_error"
  /\ UNCHANGED <<runner_args, session, releases, messages, taskState, queued,
                 pipe, handshake, idle, spoken, handlerVars>>

\* idle_timeout_secs set two seconds above the runner's argument.
TaskIdleTimeout_Padded == runner_args.pipeline_idle_timeout_secs + 2

\* idle_timeout_secs=runner_args.pipeline_idle_timeout_secs
TaskIdleTimeout == runner_args.pipeline_idle_timeout_secs

\* run_bot() up to `await runner.run(task)`: the session is acquired, the
\* services, the context, the pipeline and the task are constructed and the
\* two handlers are registered.
RunBotSetup ==
  /\ botPc = "transport_ready"
  /\ session' = "open"
  /\ messages' = <<SystemPrompt>>
  /\ pipe' = EmptyPipe
  /\ taskState' = "running"
  /\ idle' = 0
  /\ botPc' = "running"
  /\ UNCHANGED <<runner_args, builderCalls, transports, releases, queued,
                 handshake, spoken, handlerVars>>

\* ------------------------------------------------------------ scheduling
\* Threads instead of coroutines: a switch is possible anywhere.
NoCoroutineRunning_Preemptive == TRUE

\* on_client_ready does not await between messages.append(...) and the call
\* of task.queue_frames(...): while an invocation stands between the two, it
\* holds the event loop and nothing else is scheduled.
NoCoroutineRunning == \A i \in ReadyIds : readyPc[i] # "appended"

\* ------------------------------------------------------------ on_client_ready
\* Deliveries of the client-ready signal so far.
Delivered == Cardinality({i \in ReadyIds : readyPc[i] # "idle"})

\* The RTVI processor receives a client-ready message and calls the handler.
ClientReadySignal(i) ==
  /\ botPc = "running"
  /\ NoCoroutineRunning
  /\ readyPc[i] = "idle"
  /\ i > 1 => readyPc[i - 1] # "idle"
  /\ Delivered + spoken < MaxEvents
  /\ readyPc' = [readyPc EXCEPT ![i] = "called"]
  /\ handshake' = IF handshake = "WaitingForClient" THEN "WaitingForBot" ELSE handshake
  /\ firstSignal' = IF firstSignal = "none" THEN "ready" ELSE firstSignal
  /\ UNCHANGED <<runner_args, botPc, botVars, messages, taskState, queued, pipe,
                 discPc, idle, spoken>>

\* The handler goes on without signalling bot-readiness.
AfterSetBotReady_Skipped(h) == h

\* rtvi.set_bot_ready(): "This completes the RTVI handshake".
AfterSetBotReady(h) == "Ready"

\* await rtvi.set_bot_ready()
OnClientReady_SetBotReady(i) ==
  /\ NoCoroutineRunning
  /\ readyPc[i] = "called"
  /\ handshake' = AfterSetBotReady(handshake)
  /\ readyPc' = [readyPc EXCEPT ![i] = "await_set_bot_ready"]
  /\ UNCHANGED <<runner_args, botPc, botVars, messages, taskState, queued, pipe,
                 discPc, idle, spoken, firstSignal>>

\* messages.insert(0, ...) instead of messages.append(...).
AppendGreeting_Front(msgs) == <<GreetingDirective>> \o msgs

\* messages.append({"role": "system", "content": "Start by greeting ..."})
AppendGreeting(msgs) == Append(msgs, GreetingDirective)

\* The handler resumes from set_bot_ready and appends the directive.
OnClientReady_Append(i) ==
  /\ NoCoroutineRunning
  /\ readyPc[i] = "await_set_bot_ready"
  /\ messages' = AppendGreeting(messages)
  /\ readyPc' = [readyPc EXCEPT ![i] = "appended"]
  /\ UNCHANGED <<runner_args, botPc, botVars, taskState, queued, pipe, handshake,
                 discPc, idle, spoken, firstSignal>>

\* Two run frames for one directive.
GreetingFrames_Twice == <<LLMRunFrame, LLMRunFrame>>

\* [LLMRunFrame()]
GreetingFrames == <<LLMRunFrame>>

\* task.queue_frames(frames): the frames enter the pipeline at its first stage.
TaskQueueFrames(p, frames) == [p EXCEPT ![1] = p[1] \o frames]

\* await task.queue_frames([LLMRunFrame()])
OnClientReady_QueueFrames(i) ==
  /\ readyPc[i] = "appended"
  /\ pipe' = TaskQueueFrames(pipe, GreetingFrames)
  /\ queued' = queued + Len(GreetingFrames)
  /\ readyPc' = [readyPc EXCEPT ![i] = "await_queue_frames"]
  /\ UNCHANGED <<runner_args, botPc, botVars, messages, taskState, handshake,
                 discPc, idle, spoken, firstSignal>>

\* The handler resumes from queue_frames and returns.
OnClientReady_Return(i) ==
  /\ NoCoroutineRunning
  /\ readyPc[i] = "await_queue_frames"
  /\ readyPc' = [readyPc EXCEPT ![i] = "done"]
  /\ UNCHANGED <<runner_args, botPc, botVars, messages, taskState, queued, pipe,
                 handshake, discPc, idle, spoken, firstSignal>>

\* ------------------------------------------------------ on_client_disconnected
\* The transport reports the disconnect and the handler runs up to
\* `await task.cancel()`: "Cancel the pipeline task to clean up resources";
\* the frames still in the pipeline are discarded with it.
OnClientDisconnected_Cancel ==
  /\ botPc = "running"
  /\ NoCoroutineRunning
  /\ discPc = "idle"
  /\ taskState' = "cancelled"
  /\ pipe' = EmptyPipe
  /\ discPc' = "await_cancel"
  /\ firstSignal' = IF firstSignal = "none" THEN "disconnect" ELSE firstSignal
  /\ UNCHANGED <<runner_args, botPc, botVars, messages, queued, handshake,
                 readyPc, idle, spoken>>

\* The handler resumes from task.cancel() and returns.
OnClientDisconnected_Return ==
  /\ NoCoroutineRunning
  /\ discPc = "await_cancel"
  /\ discPc' = "done"
  /\ UNCHANGED <<runner_args, botPc, botVars, messages, taskState, queued, pipe,
                 handshake, readyPc, idle, spoken, firstSignal>>

\* ------------------------------------------------------------ the pipeline
\* A frame is put at the front of the next stage's queue.
Enqueue_Front(q, f) == <<f>> \o q

\* "Data flows from top to bottom through these processors": a stage hands
\* each frame to the next stage, behind the frames already waiting there.
Enqueue(q, f) == Append(q, f)

\* The user has spoken k utterances; the language model answers the last
\* user message of the context, or opens the conversation when there is none.
TurnOf(text) == CHOOSE k \in 1..Len(UtteranceTexts) : UtteranceTexts[k] = text

UserIndexes(msgs) == {i \in 1..Len(msgs) : msgs[i].role = "user"}

LLMReply(msgs) ==
  IF UserIndexes(msgs) = {}
    THEN OpeningReply
    ELSE LET last == CHOOSE i \in UserIndexes(msgs) :
                       \A j \in UserIndexes(msgs) : j <= i
         IN ReplyTexts[TurnOf(msgs[last].content)]

\* context_aggregator.user(): "Add user's text to conversation context".
UserAggregate(msgs, text) == Append(msgs, [role |-> "user", content |-> text])

\* context_aggregator.assistant(): "Add assistant's response to conversation
\* context".
AssistantAggregate(msgs, text) ==
  Append(msgs, [role |-> "assistant", content |-> text])

\* What stage `name` does with frame f when the context holds msgs: the
\* frames it hands downstream and the context afterwards.
Process(name, f, msgs) ==
  CASE name = "stt" /\ f.type = "audio" ->
         [out |-> <<Frame("transcription", f.text)>>, msgs |-> msgs]
    [] name = "user_agg" /\ f.type = "transcription" ->
         [out |-> <<Frame("context", "")>>, msgs |-> UserAggregate(msgs, f.text)]
    [] name = "user_agg" /\ f.type = "run" ->
         [out |-> <<Frame("context", "")>>, msgs |-> msgs]
    [] name = "llm" /\ f.type = "context" ->
         [out |-> <<Frame("reply", LLMReply(msgs))>>, msgs |-> msgs]
    [] name = "tts" /\ f.type = "reply" ->
         [out |-> <<[f EXCEPT !.audio = TRUE]>>, msgs |-> msgs]
    [] name = "tavus" /\ f.type = "reply" ->
         [out |-> <<[f EXCEPT !.video = f.audio]>>, msgs |-> msgs]
    [] name = "assistant_agg" /\ f.type = "reply" ->
         [out |-> <<>>, msgs |-> AssistantAggregate(msgs, f.text)]
    [] OTHER -> [out |-> <<f>>, msgs |-> msgs]

\* transport.input(): the user's speech arrives as audio and is handed to
\* the stage after the transport input.
UserSpeaks ==
  /\ botPc = "running"
  /\ taskState = "running"
  /\ NoCoroutineRunning
  /\ Delivered + spoken < MaxEvents
  /\ spoken' = spoken + 1
  /\ pipe' = [pipe EXCEPT ![2] = Enqueue(pipe[2], Frame("audio", UtteranceTexts[spoken + 1]))]
  /\ idle' = 0
  /\ UNCHANGED <<runner_args, botPc, botVars, messages, taskState, queued,
                 handshake, handlerVars>>

\* Stage s processes the oldest frame waiting at it.
StageStep(s) ==
  /\ botPc = "running"
  /\ taskState = "running"
  /\ NoCoroutineRunning
  /\ pipe[s] # <<>>
  /\ LET r == Process(Pipeline[s], Head(pipe[s]), messages) IN
       /\ messages' = r.msgs
       /\ pipe' = [t \in Stages |->
                     IF t = s THEN Tail(pipe[s])
                     ELSE IF t = s + 1 /\ r.out # <<>> THEN Enqueue(pipe[t], r.out[1])
                     ELSE pipe[t]]
  /\ idle' = 0
  /\ UNCHANGED <<runner_args, botPc, botVars, taskState, queued, handshake,
                 spoken, handlerVars>>

\* PipelineTask(idle_timeout_secs=...): "Automatically stop the pipeline
\* after this many seconds of inactivity".  A second passes with no frame
\* flowing; the task cancels itself once the idle time has passed the
\* timeout, and at the latest when it exceeds it.
IdleTick ==
  /\ botPc = "running"
  /\ taskState = "running"
  /\ NoCoroutineRunning
  /\ \A s \in Stages : pipe[s] = <<>>
  /\ idle' = idle + 1
  /\ \/ idle' >= TaskIdleTimeout /\ taskState' = "cancelled"
     \/ idle' <= TaskIdleTimeout /\ taskState' = taskState
  /\ UNCHANGED <<runner_args, botPc, botVars, messages, queued, pipe, handshake,
                 spoken, handlerVars>>

\* ------------------------------------------------------------ leaving run_bot
\* The session scope is left without closing the session.
RunBotExit_Leak ==
  /\ botPc = "running"
  /\ taskState = "cancelled"
  /\ NoCoroutineRunning
  /\ botPc' = "done"
  /\ UNCHANGED <<runner_args, builderCalls, transports, session, releases,
                 messages, taskState, queued, pipe, handshake, idle, spoken,
                 handlerVars>>

\* `await runner.run(task)` returns once the task is cancelled, and the
\* `async with aiohttp.ClientSession() as session` block is left.
RunBotExit ==
  /\ botPc = "running"
  /\ taskState = "cancelled"
  /\ NoCoroutineRunning
  /\ session' = "closed"
  /\ releases' = releases + 1
  /\ botPc' = "done"
  /\ UNCHANGED <<runner_args, builderCalls, transports, messages, taskState,
                 queued, pipe, handshake, idle, spoken, handlerVars>>

\* `await runner.run(task)` raises (a failure of a service surfaces as a
\* pipeline error); the `async with` block is left by the exception.
RunBotRaise ==
  /\ botPc = "running"
  /\ taskState = "running"
  /\ NoCoroutineRunning
  /\ taskState' = "failed"
  /\ pipe' = EmptyPipe
  /\ session' = "closed"
  /\ releases' = releases + 1
  /\ botPc' = "failed"
  /\ UNCHANGED <<runner_args, builderCalls, transports, messages, queued,
                 handshake, idle, spoken, handlerVars>>

\* ------------------------------------------------------------ specification
Next ==
  \/ BotCreateTransport
  \/ RunBotSetup
  \/ \E i \in ReadyIds : ClientReadySignal(i)
  \/ \E i \in ReadyIds : OnClientReady_SetBotReady(i)
  \/ \E i \in ReadyIds : OnClientReady_Append(i)
  \/ \E i \in ReadyIds : OnClientReady_QueueFrames(i)
  \/ \E i \in ReadyIds : OnClientReady_Return(i)
  \/ OnClientDisconnected_Cancel
  \/ OnClientDisconnected_Return
  \/ UserSpeaks
  \/ \E s \in Stages : StageStep(s)
  \/ IdleTick
  \/ RunBotExit
  \/ RunBotRaise

Spec == Init /\ [][Next]_vars

\* The event loop keeps running what is runnable, and time passes.
Fairness ==
  /\ WF_vars(IdleTick)
  /\ WF_vars(\E s \in Stages : StageStep(s))
  /\ WF_vars(\E i \in ReadyIds : OnClientReady_QueueFrames(i))

LiveSpec == Spec /\ Fairness

\* ------------------------------------------------------------ observations
GreetingCount ==
  Cardinality({i \in 1..Len(messages) : messages[i] = GreetingDirective})

SessionLive == botPc \in {"running", "done", "failed"}

\* An on_client_ready invocation that has called set_bot_ready and has not
\* returned.
ReadyInProgress(i) ==
  readyPc[i] \in {"await_set_bot_ready", "appended", "await_queue_frames"}

\* The step is a stage of the running pipeline processing a frame.
FrameStep ==
  /\ taskState = "running"
  /\ taskState' = "running"
  /\ \E s \in Stages : pipe[s] # <<>> /\ pipe'[s] = Tail(pipe[s])

\* The step is stage s taking a frame of type t.
StageTakes(s, t) ==
  /\ taskState = "running"
  /\ taskState' = "running"
  /\ pipe[s] # <<>>
  /\ Head(pipe[s]).type = t
  /\ pipe'[s] = Tail(pipe[s])

\* The step is a statement of the body of an on_client_ready invocation.
ReadyBodyStep ==
  \E i \in ReadyIds : readyPc[i] # "idle" /\ readyPc'[i] # readyPc[i]

GreetingStep ==
  \E i \in ReadyIds : readyPc[i] = "await_set_bot_ready" /\ readyPc'[i] = "appended"

QueueStep ==
  \E i \in ReadyIds : readyPc[i] = "appended" /\ readyPc'[i] = "await_queue_frames"

\* ------------------------------------------------------------ claims

\* C1: the context starts with the system prompt, and the greeting directive
\* is appended exactly once however often the client-ready signal is
\* delivered to on_client_ready.
C1_GreetingOnce ==
  SessionLive =>
    /\ messages[1] = SystemPrompt
    /\ GreetingCount <= 1
    /\ (\E i \in ReadyIds : readyPc[i] \in {"appended", "await_queue_frames", "done"})
         => GreetingCount = 1

\* C2: when the disconnect signal is the first signal of the session, the
\* task is cancelled and no greeting directive is appended and no run frame
\* is enqueued afterwards.
C2_NoGreetingAfterDisconnect ==
  firstSignal = "disconnect" =>
    /\ taskState = "cancelled"
    /\ GreetingCount = 0
    /\ queued = 0

\* C3: after a disconnect the task is cancelled, and the HTTP session is
\* released exactly once: never twice, and never left open once run_bot has
\* returned.
C3_SessionReleasedOnce ==
  /\ releases <= 1
  /\ discPc # "idle" => taskState = "cancelled"
  /\ botPc = "running" => session = "open" /\ releases = 0
  /\ botPc \in {"done", "failed"} => session = "closed" /\ releases = 1

\* The client-ready signal was followed by the disconnect before the ready
\* handler had run, and run_bot has returned.
C3_Witness ==
  /\ firstSignal = "ready"
  /\ readyPc[1] = "called"
  /\ discPc = "done"
  /\ botPc = "done"
  /\ releases = 1

\* C4: the context records the turns in their order: the user messages are
\* in the order they were spoken, and an assistant message that answers a
\* user message comes after it, never before.
C4_TurnOrder ==
  /\ \A i, j \in UserIndexes(messages) :
       i < j => TurnOf(messages[i].content) < TurnOf(messages[j].content)
  /\ \A i \in 1..Len(messages) :
       (messages[i].role = "assistant" /\ messages[i].content # OpeningReply) =>
         \E j \in 1..(i - 1) :
           /\ messages[j].role = "user"
           /\ ReplyTexts[TurnOf(messages[j].content)] = messages[i].content
  /\ \A j \in UserIndexes(messages) : \A i \in 1..(j - 1) :
       ~ /\ messages[i].role = "assistant"
         /\ messages[i].content = ReplyTexts[TurnOf(messages[j].content)]

\* Two user turns with the answer to the first between them.
C4_Witness ==
  \E i, j, k \in 1..Len(messages) :
    /\ i < j /\ j < k
    /\ messages[i] = [role |-> "user", content |-> "hello"]
    /\ messages[j] = [role |-> "assistant", content |-> "hi there"]
    /\ messages[k] = [role |-> "user", content |-> "thanks"]

\* C5: the context grows by appending only: the ready handler appends the
\* greeting directive and then enqueues one run frame, the user aggregator
\* appends the transcribed utterance as a user message, the assistant
\* aggregator appends the model's reply as an assistant message, and no
\* entry already in the context is removed or changed.
C5_Scenario ==
  /\ [](SessionLive => messages[1] = SystemPrompt)
  /\ [](queued = Cardinality({i \in ReadyIds :
                                readyPc[i] \in {"await_queue_frames", "done"}}))
  /\ [][ /\ GreetingStep => messages' = Append(messages, GreetingDirective)
         /\ QueueStep => /\ messages' = messages
                         /\ pipe'[1] = Append(pipe[1], LLMRunFrame)
         /\ StageTakes(4, "transcription") =>
              messages' = Append(messages, [role |-> "user",
                                            content |-> Head(pipe[4]).text])
         /\ StageTakes(9, "reply") =>
              messages' = Append(messages, [role |-> "assistant",
                                            content |-> Head(pipe[9]).text])
         /\ SessionLive =>
              /\ Len(messages') >= Len(messages)
              /\ SubSeq(messages', 1, Len(messages)) = messages
         /\ (SessionLive /\ ~GreetingStep /\ ~StageTakes(4, "transcription")
               /\ ~StageTakes(9, "reply")) => messages' = messages
     ]_vars

\* The scenario of the claim, played to its end.
C5_Witness ==
  /\ messages = <<SystemPrompt, GreetingDirective,
                  [role |-> "user", content |-> "hello"],
                  [role |-> "assistant", content |-> "hi there"]>>
  /\ queued = 1

C7_IdleTimeout ==
  /\ [](taskState = "running" => idle <= runner_args.pipeline_idle_timeout_secs)
  /\ []((taskState = "cancelled" /\ discPc = "idle") =>
          idle >= runner_args.pipeline_idle_timeout_secs)
  /\ (taskState = "running") ~> (taskState # "running")

\* No signal and no utterance at all, and the idle time has passed the
\* timeout.
C7_Witness ==
  /\ firstSignal = "none"
  /\ spoken = 0
  /\ idle > runner_args.pipeline_idle_timeout_secs
  /\ taskState = "cancelled"

\* C8: nothing of on_client_disconnected and no frame processing runs
\* between the start and the end of an on_client_ready invocation, and
\* nothing of on_client_ready and no frame processing runs within an
\* on_client_disconnected invocation.
C8_Serialized ==
  [][ /\ (\E i \in ReadyIds : ReadyInProgress(i)) =>
           (discPc' = discPc /\ ~FrameStep)
      /\ discPc = "await_cancel" => (~ReadyBodyStep /\ ~FrameStep)
    ]_vars

\* C8 as amended: between the greeting append and the call of
\* task.queue_frames, which no await separates, nothing else runs: the next
\* step is that invocation's queue_frames.
C8_AwaitFreeSegment ==
  [][ \A i \in ReadyIds : readyPc[i] = "appended" =>
        /\ readyPc' = [readyPc EXCEPT ![i] = "await_queue_frames"]
        /\ discPc' = discPc
        /\ ~FrameStep
        /\ taskState' = taskState
        /\ messages' = messages
        /\ spoken' = spoken
        /\ idle' = idle
    ]_vars

\* An invocation stands between the append and queue_frames while the
\* disconnect handler is suspended in task.cancel().
C8_Witness ==
  /\ \E i \in ReadyIds : readyPc[i] = "appended"
  /\ discPc = "await_cancel"

\* C9: the handshake moves WaitingForClient -> WaitingForBot -> Ready;
\* on_client_ready signals bot-readiness before it appends the directive
\* and appends before it enqueues, so no directive and no run frame exists
\* while the handshake is not Ready.
C9_GreetingOnlyWhenReady ==
  /\ [](/\ (GreetingCount > 0 \/ queued > 0) => handshake = "Ready"
        /\ queued <= GreetingCount
        /\ \A i \in ReadyIds :
             (ReadyInProgress(i) \/ readyPc[i] = "done") => handshake = "Ready"
        /\ handshake = "WaitingForClient" => \A i \in ReadyIds : readyPc[i] = "idle")
  /\ [][ handshake' # handshake =>
           <<handshake, handshake'>> \in {<<"WaitingForClient", "WaitingForBot">>,
                                          <<"WaitingForBot", "Ready">>} ]_vars

C9_Witness ==
  /\ handshake = "Ready"
  /\ GreetingCount = 1
  /\ queued = 1

\* C10: the directives appended are as many as the run frames enqueued, or
\* one more; one more exactly while an invocation stands between its append
\* and its queue_frames; and on_client_disconnected appends no message and
\* enqueues no frame.
C10_GreetingsMatchRunFrames ==
  /\ [](/\ GreetingCount \in {queued, queued + 1}
        /\ GreetingCount = queued + 1 <=> \E i \in ReadyIds : readyPc[i] = "appended"
        /\ (\A i \in ReadyIds : readyPc[i] \in {"idle", "done"}) => GreetingCount = queued)
  /\ [][ discPc' # discPc =>
           /\ messages' = messages
           /\ queued' = queued
           /\ pipe' \in {pipe, EmptyPipe} ]_vars

\* A directive is appended and its run frame is not yet enqueued, after the
\* disconnect handler has run.
C10_Witness ==
  /\ GreetingCount = queued + 1
  /\ discPc = "done"

====
